---- MODULE Spec2Model ----
(***************************************************************************)
(* River label placement (app.py): RiverLabeler.place_label and            *)
(* MultiAlgorithmLabeler.compare_algorithms.                               *)
(*                                                                         *)
(* Numbers.  Coordinates are rationals: an input carries one denominator   *)
(* `den` and integer numerators, so (1/2, 4) with den = 2 is <<1, 8>>.     *)
(* Values the code obtains through a square root (the distance field, the  *)
(* distances to the boundary) are carried by their squares, exactly.       *)
(* Products that do not fit TLC's integers are computed on naturals        *)
(* written as little-endian sequences of digits in base Base.              *)
(***************************************************************************)
EXTENDS Integers, Sequences, FiniteSets

VARIABLES call, result, rasters

vars == <<call, result, rasters>>

(***************************************************************************)
(* Bounds of the model.                                                    *)
(***************************************************************************)
MaxTextLen == 3
MaxFont == 6

(***************************************************************************)
(* Program constants.                                                      *)
(***************************************************************************)
MinPoints == 3
Padding == 5
Margin == 20
WidthNum == 6
WidthDen == 10
Percentile == 50

(***************************************************************************)
(* Integer helpers.                                                        *)
(***************************************************************************)
Abs(x) == IF x < 0 THEN -x ELSE x

Max(a, b) == IF a >= b THEN a ELSE b

SetMin(S) == CHOOSE x \in S : \A y \in S : x <= y

SetMax(S) == CHOOSE x \in S : \A y \in S : x >= y

\* An array that is computed once and kept: without the comparison TLC
\* recomputes an element at every read.
Stored(f) == IF f = f THEN f ELSE f

RECURSIVE Gcd(_, _)
Gcd(a, b) == IF b = 0 THEN a ELSE Gcd(b, a % b)

\* the sum of f[lo] .. f[hi]
RECURSIVE SumFn(_, _, _)
SumFn(f, lo, hi) == IF lo > hi THEN 0 ELSE f[hi] + SumFn(f, lo, hi - 1)

(***************************************************************************)
(* Rationals n/d in lowest terms, d > 0.                                   *)
(***************************************************************************)
Rat(n, d) ==
    LET s == IF d < 0 THEN -1 ELSE 1
        g == Gcd(Abs(n), Abs(d))
    IN  [n |-> (s * n) \div g, d |-> (s * d) \div g]

(***************************************************************************)
(* Naturals of any size: <<d0, d1, ...>> is d0 + d1*Base + ..., with no    *)
(* leading zero digit; <<>> is 0.                                          *)
(***************************************************************************)
Base == 1000

RECURSIVE BFromNat(_)
BFromNat(n) == IF n = 0 THEN <<>> ELSE <<n % Base>> \o BFromNat(n \div Base)

BDigit(a, i) == IF i <= Len(a) THEN a[i] ELSE 0

\* a * k + carry, for a digit sequence a and 0 <= k, carry < Base
RECURSIVE BScale(_, _, _)
BScale(a, k, carry) ==
    IF a = <<>> THEN BFromNat(carry)
    ELSE LET t == a[1] * k + carry
         IN  <<t % Base>> \o BScale(Tail(a), k, t \div Base)

RECURSIVE BAddC(_, _, _)
BAddC(a, b, carry) ==
    IF a = <<>> /\ b = <<>> THEN BFromNat(carry)
    ELSE LET t == BDigit(a, 1) + BDigit(b, 1) + carry
         IN  <<t % Base>> \o BAddC(IF a = <<>> THEN a ELSE Tail(a),
                                   IF b = <<>> THEN b ELSE Tail(b),
                                   t \div Base)

RECURSIVE BTrim(_)
BTrim(a) ==
    IF a # <<>> /\ a[Len(a)] = 0 THEN BTrim(SubSeq(a, 1, Len(a) - 1)) ELSE a

BAdd(a, b) == BTrim(BAddC(a, b, 0))

RECURSIVE BMul(_, _)
BMul(a, b) ==
    IF a = <<>> \/ b = <<>> THEN <<>>
    ELSE BAdd(BTrim(BScale(b, a[1], 0)),
              LET rest == BMul(Tail(a), b)
              IN  IF rest = <<>> THEN rest ELSE <<0>> \o rest)

\* -1, 0, 1 as a < b, a = b, a > b
RECURSIVE BCmpAt(_, _, _)
BCmpAt(a, b, i) ==
    IF i = 0 THEN 0
    ELSE IF a[i] < b[i] THEN -1
    ELSE IF a[i] > b[i] THEN 1
    ELSE BCmpAt(a, b, i - 1)

BCmp(a, b) ==
    IF Len(a) < Len(b) THEN -1
    ELSE IF Len(a) > Len(b) THEN 1
    ELSE BCmpAt(a, b, Len(a))

BSq(n) == BMul(BFromNat(Abs(n)), BFromNat(Abs(n)))

(***************************************************************************)
(* Squared lengths: a fraction n/d of two such naturals, d > 0.            *)
(***************************************************************************)
Sq(n, d) == [n |-> n, d |-> d]

SqCmp(f, g) == BCmp(BMul(f.n, g.d), BMul(g.n, f.d))

SqLess(f, g) == SqCmp(f, g) < 0

SqLeq(f, g) == SqCmp(f, g) <= 0

(***************************************************************************)
(* Inputs.  Coordinate lists the entry points are called with: lists too   *)
(* short to be a polygon, and simple polygons (convex, bent, with          *)
(* fractional extents, too thin to hold a raster sample).                  *)
(***************************************************************************)
Coord(den, pts) == [den |-> den, pts |-> pts]

Inputs ==
    << Coord(1, <<>>),
       Coord(1, << <<0, 0>> >>),
       Coord(1, << <<0, 0>>, <<4, 4>> >>),
       \* the square of the specification, clockwise
       Coord(1, << <<0, 0>>, <<0, 10>>, <<10, 10>>, <<10, 0>> >>),
       \* a wide rectangle
       Coord(1, << <<0, 0>>, <<0, 4>>, <<12, 4>>, <<12, 0>> >>),
       \* the square, counter-clockwise
       Coord(1, << <<0, 0>>, <<10, 0>>, <<10, 10>>, <<0, 10>> >>),
       \* a right triangle
       Coord(1, << <<0, 0>>, <<9, 0>>, <<0, 6>> >>),
       \* a thin L
       Coord(1, << <<0, 0>>, <<12, 0>>, <<12, 1>>, <<1, 1>>, <<1, 12>>, <<0, 12>> >>),
       \* a thicker L, counter-clockwise and clockwise
       Coord(1, << <<0, 0>>, <<10, 0>>, <<10, 2>>, <<2, 2>>, <<2, 10>>, <<0, 10>> >>),
       Coord(1, << <<0, 0>>, <<0, 10>>, <<2, 10>>, <<2, 2>>, <<10, 2>>, <<10, 0>> >>),
       \* extents 7 by 11/2, away from the origin
       Coord(2, << <<1, 1>>, <<1, 12>>, <<15, 12>>, <<15, 1>> >>),
       \* height 1/2: no raster sample falls inside
       Coord(2, << <<0, 0>>, <<0, 1>>, <<12, 1>>, <<12, 0>> >>),
       \* height 3/2: one row of raster samples
       Coord(2, << <<0, 0>>, <<0, 3>>, <<12, 3>>, <<12, 0>> >>) >>

InputIds == 1 .. Len(Inputs)

(***************************************************************************)
(* shapely: Polygon(coordinates).bounds, as numerators over den.           *)
(***************************************************************************)
Xs(poly) == {poly.pts[i][1] : i \in 1 .. Len(poly.pts)}

Ys(poly) == {poly.pts[i][2] : i \in 1 .. Len(poly.pts)}

PolygonBounds(poly) ==
    [minx |-> SetMin(Xs(poly)), miny |-> SetMin(Ys(poly)),
     maxx |-> SetMax(Xs(poly)), maxy |-> SetMax(Ys(poly))]

\* int(x) of a float x = n/d: truncation toward zero
IntTrunc(n, d) == IF n >= 0 THEN n \div d ELSE -((-n) \div d)

GridWidth(poly) ==
    LET b == PolygonBounds(poly) IN IntTrunc(b.maxx - b.minx, poly.den) + Margin

\* faulty variant: the extent rounded up
GridHeightCeil(poly) ==
    LET b == PolygonBounds(poly)
    IN  ((b.maxy - b.miny + poly.den - 1) \div poly.den) + Margin

GridHeight(poly) ==
    LET b == PolygonBounds(poly) IN IntTrunc(b.maxy - b.miny, poly.den) + Margin

(***************************************************************************)
(* matplotlib Path.contains_points with radius 0: the crossings of the     *)
(* +X ray from the sample with the ring's edges, edge by edge.  v0 and v1  *)
(* are the ends of an edge and t the sample, all over the same             *)
(* denominator.                                                            *)
(***************************************************************************)
EdgeCrossed(v0, v1, t) ==
    LET yflag0 == v0[2] >= t[2]
        yflag1 == v1[2] >= t[2]
    IN  /\ yflag0 # yflag1
        /\ ((v1[2] - t[2]) * (v0[1] - v1[1]) >= (v1[1] - t[1]) * (v0[2] - v1[2]))
             = yflag1

Vertex(poly, i) == poly.pts[((i - 1) % Len(poly.pts)) + 1]

ContainsPoint(poly, offset_x, offset_y, col, row) ==
    LET t == <<col * poly.den, row * poly.den>>
        V(i) == <<Vertex(poly, i)[1] - offset_x, Vertex(poly, i)[2] - offset_y>>
        crossings == {i \in 1 .. Len(poly.pts) : EdgeCrossed(V(i), V(i + 1), t)}
    IN  Cardinality(crossings) % 2 = 1

(***************************************************************************)
(* _polygon_to_raster: the set of cells <<row, col>> that are True.        *)
(***************************************************************************)
polygon_to_raster(poly, width, height, offset_x, offset_y) ==
    {cell \in (0 .. height - 1) \X (0 .. width - 1) :
        ContainsPoint(poly, offset_x, offset_y, cell[2], cell[1])}

(***************************************************************************)
(* scipy distance_transform_edt: for a True cell the distance to the       *)
(* nearest False cell of the array, 0 for a False cell.  Squared.  The     *)
(* array's edge is no boundary: only False cells count.  A nearest False   *)
(* cell lies within one cell of the bounding box of the True cells         *)
(* (moving a False cell outside that box onto it keeps it False and        *)
(* brings it no farther), so only those are searched.                      *)
(***************************************************************************)
distance_transform_edt(raster, width, height) ==
    LET cells == (0 .. height - 1) \X (0 .. width - 1)
        rows == {cell[1] : cell \in raster}
        cols == {cell[2] : cell \in raster}
        near == {cell \in (Max(SetMin(rows) - 1, 0) .. (SetMax(rows) + 1))
                           \X (Max(SetMin(cols) - 1, 0) .. (SetMax(cols) + 1)) :
                    cell \in cells /\ cell \notin raster}
    IN  Stored([cell \in cells |->
            IF cell \in raster
            THEN SetMin({(cell[1] - b[1]) * (cell[1] - b[1])
                          + (cell[2] - b[2]) * (cell[2] - b[2]) : b \in near})
            ELSE 0])

(***************************************************************************)
(* shapely: polygon.centroid, the area centroid of the ring.  The inputs   *)
(* of the model enclose a positive area.                                   *)
(***************************************************************************)
EdgeCross(poly, i) ==
    Vertex(poly, i)[1] * Vertex(poly, i + 1)[2]
      - Vertex(poly, i + 1)[1] * Vertex(poly, i)[2]

PolygonCentroid(poly) ==
    LET n == Len(poly.pts)
        a2 == SumFn([i \in 1 .. n |-> EdgeCross(poly, i)], 1, n)
        sx == SumFn([i \in 1 .. n |->
                  (Vertex(poly, i)[1] + Vertex(poly, i + 1)[1]) * EdgeCross(poly, i)], 1, n)
        sy == SumFn([i \in 1 .. n |->
                  (Vertex(poly, i)[2] + Vertex(poly, i + 1)[2]) * EdgeCross(poly, i)], 1, n)
    IN  [x |-> Rat(sx, 3 * a2 * poly.den), y |-> Rat(sy, 3 * a2 * poly.den)]

(***************************************************************************)
(* shapely: polygon.boundary.distance(point), the least distance from the  *)
(* point to an edge of the ring.  Never negative, whichever side of the    *)
(* boundary the point is on.  Squared.                                     *)
(***************************************************************************)
Lcm(a, b) == (a \div Gcd(a, b)) * b

\* p is the point and a, b the ends of the edge; p over q, a and b over q \div k
PointSegmentDistance(p, q, a, b, k) ==
    LET u == <<b[1] - a[1], b[2] - a[2]>>
        w == <<p[1] - a[1] * k, p[2] - a[2] * k>>
        z == <<p[1] - b[1] * k, p[2] - b[2] * k>>
        dot == u[1] * w[1] + u[2] * w[2]
        len2 == u[1] * u[1] + u[2] * u[2]
        cross == u[1] * w[2] - u[2] * w[1]
    IN  IF len2 = 0 \/ dot <= 0 THEN Sq(BAdd(BSq(w[1]), BSq(w[2])), BSq(q))
        ELSE IF dot >= k * len2 THEN Sq(BAdd(BSq(z[1]), BSq(z[2])), BSq(q))
        ELSE Sq(BSq(cross), BMul(BFromNat(len2), BSq(q)))

RECURSIVE SqMinOver(_, _)
SqMinOver(f, n) ==
    IF n = 1 THEN f[1]
    ELSE LET m == SqMinOver(f, n - 1) IN IF SqLess(f[n], m) THEN f[n] ELSE m

BoundaryDistance(poly, point) ==
    LET q == Lcm(Lcm(point.x.d, point.y.d), poly.den)
        p == <<point.x.n * (q \div point.x.d), point.y.n * (q \div point.y.d)>>
        n == Len(poly.pts)
    IN  SqMinOver([i \in 1 .. n |->
                     PointSegmentDistance(p, q, Vertex(poly, i), Vertex(poly, i + 1),
                                          q \div poly.den)], n)

(***************************************************************************)
(* numpy: distances.max() and np.unravel_index(distances.argmax(), shape): *)
(* argmax is over the array flattened row by row and is the first index    *)
(* holding the maximum.                                                    *)
(***************************************************************************)
ArrayMax(distances) == SetMax({distances[cell] : cell \in DOMAIN distances})

Unravel(k, width) == <<k \div width, k % width>>

\* faulty variant: the last index holding the maximum
ArgMaxLast(distances, width, height) ==
    LET m == SetMax({distances[cell] : cell \in DOMAIN distances})
    IN  CHOOSE k \in 0 .. (width * height - 1) :
            /\ distances[<<k \div width, k % width>>] = m
            /\ \A j \in (k + 1) .. (width * height - 1) :
                  distances[<<j \div width, j % width>>] # m

ArgMax(distances, width, height) ==
    LET m == ArrayMax(distances)
    IN  CHOOSE k \in 0 .. (width * height - 1) :
            /\ distances[Unravel(k, width)] = m
            /\ \A j \in 0 .. (k - 1) : distances[Unravel(j, width)] # m

(***************************************************************************)
(* numpy: np.percentile(interior, 50), linear interpolation between the    *)
(* two order statistics around position (n - 1) * 50 / 100.  The result    *)
(* is (1 - f) * sqrt(lo) + f * sqrt(hi) with f = fn / fd.                  *)
(***************************************************************************)
\* the k-th smallest (k = 0 the least) of the values of d over cells
OrderStatistic(d, cells, k) ==
    CHOOSE v \in {d[c] : c \in cells} :
        /\ Cardinality({c \in cells : d[c] < v}) <= k
        /\ k < Cardinality({c \in cells : d[c] <= v})

NpPercentile(d, cells, pct) ==
    LET n == Cardinality(cells)
        pos == (n - 1) * pct
        lo == pos \div 100
        f == Rat(pos % 100, 100)
    IN  [lo |-> OrderStatistic(d, cells, lo),
         hi |-> OrderStatistic(d, cells, IF f.n = 0 THEN lo ELSE lo + 1),
         fn |-> f.n, fd |-> f.d]

\* sqrt(v) > threshold
AboveThreshold(v, t) ==
    LET l == t.fd * t.fd * v - (t.fd - t.fn) * (t.fd - t.fn) * t.lo - t.fn * t.fn * t.hi
    IN  /\ l > 0
        /\ l * l > 4 * (t.fd - t.fn) * (t.fd - t.fn) * t.fn * t.fn * t.lo * t.hi

(***************************************************************************)
(* The raster and the distance field of each input, computed once.         *)
(***************************************************************************)
PolygonIds == {i \in InputIds : Len(Inputs[i].pts) >= MinPoints}

IdOf(poly) == CHOOSE i \in InputIds : Inputs[i] = poly

RasterOf ==
    [i \in PolygonIds |->
        LET poly == Inputs[i]
            b == PolygonBounds(poly)
        IN  polygon_to_raster(poly, GridWidth(poly), GridHeight(poly), b.minx, b.miny)]

DistancesOf ==
    [i \in PolygonIds |->
        distance_transform_edt(RasterOf[i], GridWidth(Inputs[i]), GridHeight(Inputs[i]))]

WidestOf ==
    [i \in PolygonIds |->
        [max_dist |-> ArrayMax(DistancesOf[i]),
         widest_idx |-> Unravel(ArgMax(DistancesOf[i], GridWidth(Inputs[i]),
                                      GridHeight(Inputs[i])), GridWidth(Inputs[i]))]]

(***************************************************************************)
(* compare_algorithms, lines 244-250: the cells whose distance exceeds the *)
(* 50th percentile of the positive distances; none when no distance is     *)
(* positive.                                                               *)
(***************************************************************************)
GoodPoints(distances) ==
    LET interior == {cell \in DOMAIN distances : distances[cell] > 0}
    IN  IF Cardinality(interior) > 0
        THEN LET threshold == NpPercentile(distances, interior, Percentile)
             IN  {cell \in interior : AboveThreshold(distances[cell], threshold)}
        ELSE {}

GoodPointsOf == [i \in PolygonIds |-> GoodPoints(DistancesOf[i])]

\* good_points[:, axis].sum() and len(good_points)
GoodSumsOf ==
    [i \in PolygonIds |->
        LET good == GoodPointsOf[i]
            h == GridHeight(Inputs[i])
            w == GridWidth(Inputs[i])
        IN  [count |-> Cardinality(good),
             rows |-> SumFn([r \in 0 .. h - 1 |->
                               r * Cardinality({cell \in good : cell[1] = r})], 0, h - 1),
             cols |-> SumFn([c \in 0 .. w - 1 |->
                               c * Cardinality({cell \in good : cell[2] = c})], 0, w - 1)]]

(***************************************************************************)
(* Text footprint, lines 43-44 and 205-206.                                *)
(***************************************************************************)
TextWidth(label_text, font_size) == Rat(Len(label_text) * font_size * WidthNum, WidthDen)

TextHeight(label_text, font_size) == Rat(font_size, 1)

RatLeq(a, b) == a.n * b.d <= b.n * a.d

RatMax(a, b) == IF RatLeq(b, a) THEN a ELSE b

RatPlusInt(a, k) == Rat(a.n + k * a.d, a.d)

\* faulty variant: > for >=
FitsStrict(max_dist2, text_width, text_height) ==
    LET need == RatPlusInt(RatMax(text_width, text_height), Padding)
    IN  \/ need.n < 0
        \/ 4 * max_dist2 * need.d * need.d > need.n * need.n

\* faulty variant: the padding taken off
FitsPaddingOff(max_dist2, text_width, text_height) ==
    LET need == RatPlusInt(RatMax(text_width, text_height), -Padding)
    IN  \/ need.n <= 0
        \/ 4 * max_dist2 * need.d * need.d >= need.n * need.n

\* max_dist * 2 >= max(text_width, text_height) + self.padding, line 83
Fits(max_dist2, text_width, text_height) ==
    LET need == RatPlusInt(RatMax(text_width, text_height), Padding)
    IN  \/ need.n <= 0
        \/ 4 * max_dist2 * need.d * need.d >= need.n * need.n

\* the squared distance between two points with rational coordinates
PointDistance(ax, ay, bx, by) ==
    LET q == Lcm(Lcm(ax.d, ay.d), Lcm(bx.d, by.d))
        dx == ax.n * (q \div ax.d) - bx.n * (q \div bx.d)
        dy == ay.n * (q \div ay.d) - by.n * (q \div by.d)
    IN  Sq(BAdd(BSq(dx), BSq(dy)), BSq(q))

\* faulty variant: x from the row and y from the column
OptimalPointSwapped(poly, widest_idx) ==
    LET b == PolygonBounds(poly)
    IN  [x |-> Rat(widest_idx[1] * poly.den + b.minx, poly.den),
         y |-> Rat(widest_idx[2] * poly.den + b.miny, poly.den)]

\* lines 75-76: widest_idx is <<row, col>>
OptimalPoint(poly, widest_idx) ==
    LET b == PolygonBounds(poly)
    IN  [x |-> Rat(widest_idx[2] * poly.den + b.minx, poly.den),
         y |-> Rat(widest_idx[1] * poly.den + b.miny, poly.den)]

(***************************************************************************)
(* RiverLabeler._find_widest_point.  max_width is 2 * max_dist and         *)
(* improvement a distance; both are carried squared.                       *)
(***************************************************************************)
find_widest_point(poly, text_width, text_height) ==
    LET widest == WidestOf[IdOf(poly)]
        optimal_x == OptimalPoint(poly, widest.widest_idx).x
        optimal_y == OptimalPoint(poly, widest.widest_idx).y
        centroid == PolygonCentroid(poly)
    IN  [optimal_x |-> optimal_x,
         optimal_y |-> optimal_y,
         naive_x |-> centroid.x,
         naive_y |-> centroid.y,
         fits_inside |-> Fits(widest.max_dist, text_width, text_height),
         max_width_sq |-> 4 * widest.max_dist,
         improvement_sq |-> PointDistance(optimal_x, optimal_y, centroid.x, centroid.y)]

GridShape(poly) == [width |-> GridWidth(poly), height |-> GridHeight(poly)]

(***************************************************************************)
(* The calls.  A label text is a sequence of characters; a font size is    *)
(* any integer the request layer passes (place_label_api does not clamp    *)
(* it).                                                                    *)
(***************************************************************************)
Texts == UNION {[1 .. n -> {"R"}] : n \in 0 .. MaxTextLen}

FontSizes == (-MaxFont) .. MaxFont

NoCall == [op |-> "none"]

NoResult == [kind |-> "none"]

(***************************************************************************)
(* RiverLabeler.place_label                                                *)
(***************************************************************************)
place_label(coordinates, label_text, font_size) ==
    IF Len(coordinates.pts) < MinPoints
    THEN [kind |-> "error", error |-> "Need at least 3 points"]
    ELSE [kind |-> "ok",
          placement |-> find_widest_point(coordinates,
                                          TextWidth(label_text, font_size),
                                          TextHeight(label_text, font_size)),
          text |-> label_text,
          font_size |-> font_size,
          polygon_coords |-> coordinates]

\* the rasters a call of place_label allocates
place_label_rasters(coordinates) ==
    IF Len(coordinates.pts) < MinPoints THEN <<>> ELSE <<GridShape(coordinates)>>

PlaceLabel(i, label_text, font_size) ==
    /\ call = NoCall
    /\ call' = [op |-> "place_label", input |-> i,
                label_text |-> label_text, font_size |-> font_size]
    /\ result' = place_label(Inputs[i], label_text, font_size)
    /\ rasters' = place_label_rasters(Inputs[i])

(***************************************************************************)
(* MultiAlgorithmLabeler.compare_algorithms                                *)
(***************************************************************************)
\* faulty variant: the last of the greatest
RECURSIVE PyMaxIndexLast(_, _)
PyMaxIndexLast(keys, n) ==
    IF n = 1 THEN 1
    ELSE LET best == PyMaxIndexLast(keys, n - 1)
         IN  IF SqLeq(keys[best], keys[n]) THEN n ELSE best

\* max(keys, key = ...) of Python over a list: the first of the greatest
RECURSIVE PyMaxIndex(_, _)
PyMaxIndex(keys, n) ==
    IF n = 1 THEN 1
    ELSE LET best == PyMaxIndex(keys, n - 1)
         IN  IF SqLess(keys[best], keys[n]) THEN n ELSE best

Strategies == <<"centroid", "distance_transform", "weighted">>

\* faulty variant: the distance transform always wins
WinnerOurs(results) == "distance_transform"

Winner(results) ==
    Strategies[PyMaxIndex([k \in 1 .. Len(Strategies) |->
                              results[Strategies[k]].distance_to_edge_sq],
                          Len(Strategies))]

\* faulty variant: the mean of no point taken as 0
WeightedPointNoFallback(poly, centroid) ==
    LET good == GoodSumsOf[IdOf(poly)]
        b == PolygonBounds(poly)
    IN  IF good.count > 0
        THEN [x |-> Rat(good.cols * poly.den + b.minx * good.count, good.count * poly.den),
              y |-> Rat(good.rows * poly.den + b.miny * good.count, good.count * poly.den)]
        ELSE [x |-> Rat(b.minx, poly.den), y |-> Rat(b.miny, poly.den)]

\* lines 252-257
WeightedPoint(poly, centroid) ==
    LET good == GoodSumsOf[IdOf(poly)]
        b == PolygonBounds(poly)
    IN  IF good.count > 0
        THEN [x |-> Rat(good.cols * poly.den + b.minx * good.count, good.count * poly.den),
              y |-> Rat(good.rows * poly.den + b.miny * good.count, good.count * poly.den)]
        ELSE [x |-> centroid.x, y |-> centroid.y]

\* Polygon(coordinates) of shapely raises ValueError on one or two points
\* (line 204).  Of no point it is the empty polygon, whose centroid and
\* bounds are no numbers: reading them raises (line 218, or line 60 or 61
\* in _find_widest_point, with the version of shapely), before any raster
\* is built.  Nothing catches either inside compare_algorithms.
PolygonRaises(coordinates) == Len(coordinates.pts) \in 1 .. (MinPoints - 1)

BoundsRaise(coordinates) == Len(coordinates.pts) = 0

\* _create_comparison_viz draws the three panels and returns the picture,
\* base64 text the model does not look into
create_comparison_viz(coordinates, results) == "png"

compare_algorithms(coordinates, label_text, font_size) ==
    IF PolygonRaises(coordinates)
    THEN [kind |-> "exception", raised |-> "ValueError"]
    ELSE IF BoundsRaise(coordinates)
    THEN [kind |-> "exception", raised |-> "ValueError"]
    ELSE
    LET text_width == TextWidth(label_text, font_size)
        text_height == TextHeight(label_text, font_size)
        centroid == PolygonCentroid(coordinates)
        dt_result == find_widest_point(coordinates, text_width, text_height)
        weighted == WeightedPoint(coordinates, centroid)
        results ==
          [centroid |->
             [name |-> "Centroid (Naive)", x |-> centroid.x, y |-> centroid.y,
              distance_to_edge_sq |-> BoundaryDistance(coordinates, centroid),
              method |-> "Geometric center only"],
           distance_transform |->
             [name |-> "Distance Transform (Ours)",
              x |-> dt_result.optimal_x, y |-> dt_result.optimal_y,
              distance_to_edge_sq |->
                  Sq(BFromNat(dt_result.max_width_sq), BFromNat(2 * 2)),
              method |-> "Maximum distance from all edges"],
           weighted |->
             [name |-> "Weighted Centroid", x |-> weighted.x, y |-> weighted.y,
              distance_to_edge_sq |-> BoundaryDistance(coordinates, weighted),
              method |-> "Average of safe interior points"]]
    IN  [kind |-> "ok",
         text |-> label_text,
         font_size |-> font_size,
         polygon_coords |-> coordinates,
         candidates |-> results,
         winner |-> Winner(results),
         comparison_image |-> create_comparison_viz(coordinates, results)]

\* the first raster in _find_widest_point (line 65), the second at line 241
compare_algorithms_rasters(coordinates) ==
    IF PolygonRaises(coordinates) \/ BoundsRaise(coordinates) THEN <<>>
    ELSE <<GridShape(coordinates), GridShape(coordinates)>>

CompareAlgorithms(i, label_text, font_size) ==
    /\ call = NoCall
    /\ call' = [op |-> "compare_algorithms", input |-> i,
                label_text |-> label_text, font_size |-> font_size]
    /\ result' = compare_algorithms(Inputs[i], label_text, font_size)
    /\ rasters' = compare_algorithms_rasters(Inputs[i])

(***************************************************************************)
(* The request handlers call the labelers one request at a time and        *)
(* return the result to the client (return jsonify(...)).                  *)
(***************************************************************************)
Respond ==
    /\ call # NoCall
    /\ call' = NoCall
    /\ result' = NoResult
    /\ rasters' = <<>>

Init ==
    /\ call = NoCall
    /\ result = NoResult
    /\ rasters = <<>>

Next ==
    \/ \E i \in InputIds, label_text \in Texts, font_size \in FontSizes :
          PlaceLabel(i, label_text, font_size)
    \/ \E i \in InputIds, label_text \in Texts, font_size \in FontSizes :
          CompareAlgorithms(i, label_text, font_size)
    \/ Respond

Spec == Init /\ [][Next]_vars

(***************************************************************************)
(*                              Properties                                 *)
(***************************************************************************)
Returned(op) == call # NoCall /\ call.op = op

Coordinates == Inputs[call.input]

TooShort == Len(Coordinates.pts) < 3

\* the greatest value of the distance field of each polygon, squared
FieldMaxOf ==
    [i \in PolygonIds |->
        CHOOSE m \in {DistancesOf[i][c] : c \in DOMAIN DistancesOf[i]} :
            \A c \in DOMAIN DistancesOf[i] : DistancesOf[i][c] <= m]

\* the cells that hold it
MaxCellsOf ==
    [i \in PolygonIds |-> {c \in DOMAIN DistancesOf[i] : DistancesOf[i][c] = FieldMaxOf[i]}]

FieldMax == FieldMaxOf[call.input]

\* the world point of a cell of the raster
CellX(cell) == Rat(cell[2] * Coordinates.den + PolygonBounds(Coordinates).minx, Coordinates.den)

CellY(cell) == Rat(cell[1] * Coordinates.den + PolygonBounds(Coordinates).miny, Coordinates.den)

\* C1: place_label and compare_algorithms, called with fewer than 3
\* coordinate pairs, return an error value (they do not raise) and allocate
\* no grid.
C1_ShortInputIsErrorValue ==
    ((Returned("place_label") \/ Returned("compare_algorithms")) /\ TooShort)
        => (result.kind = "error" /\ rasters = <<>>)

\* C2: for a polygon of at least 3 points, place_label returns fits_inside
\* = true exactly when 2 * max_distance >= max(len(text) * font_size * 0.6,
\* font_size) + 5, with max_distance the greatest value of the distance
\* field, and max_width = 2 * max_distance.  In tenths: 20 * max_distance
\* >= need, where need = max(6 * len * size, 10 * size) + 50.
C2_FitsInside ==
    (Returned("place_label") /\ ~TooShort) =>
        LET size == call.font_size
            need == (IF 6 * Len(call.label_text) * size >= 10 * size
                     THEN 6 * Len(call.label_text) * size ELSE 10 * size) + 50
        IN  /\ result.kind = "ok"
            /\ result.placement.fits_inside
                 = (need <= 0 \/ 400 * FieldMax >= need * need)
            /\ result.placement.max_width_sq = 4 * FieldMax

\* a call that fits with nothing to spare: 2 * 5 = max(3, 5) + 5
C2_Witness ==
    /\ Returned("place_label")
    /\ ~TooShort
    /\ result.placement.fits_inside
    /\ call.font_size = 5
    /\ Len(call.label_text) = 1
    /\ FieldMax = 25

Candidates == {"centroid", "distance_transform", "weighted"}

Clearance(name) == result.candidates[name].distance_to_edge_sq

\* C3: for an input of at least 3 points, the result of compare_algorithms
\* holds the three candidates, and the winner is a candidate whose distance
\* to the boundary is at least that of each other candidate.
C3_WinnerIsGreatest ==
    (Returned("compare_algorithms") /\ ~TooShort) =>
        /\ result.kind = "ok"
        /\ DOMAIN result.candidates = Candidates
        /\ result.winner \in Candidates
        /\ \A name \in Candidates : SqLeq(Clearance(name), Clearance(result.winner))

\* the distance transform wins, strictly
C3_Witness ==
    /\ Returned("compare_algorithms")
    /\ ~TooShort
    /\ result.winner = "distance_transform"
    /\ SqLess(Clearance("centroid"), Clearance("distance_transform"))
    /\ SqLess(Clearance("weighted"), Clearance("distance_transform"))

Greatest == {name \in Candidates : \A other \in Candidates : SqLeq(Clearance(other), Clearance(name))}

\* C4 as stated: among the candidates that share the greatest distance the
\* winner is the one ranked highest in centroid < max-distance < weighted.
C4_TieToHighestRank ==
    (Returned("compare_algorithms") /\ ~TooShort) =>
        result.winner = (IF "weighted" \in Greatest THEN "weighted"
                         ELSE IF "distance_transform" \in Greatest THEN "distance_transform"
                         ELSE "centroid")

\* C4, amended: among the candidates that share the greatest distance the
\* winner is the first in the list centroid, max-distance, weighted; it
\* depends on the three distances only.
C4_TieToFirstListed ==
    (Returned("compare_algorithms") /\ ~TooShort) =>
        result.winner = (IF "centroid" \in Greatest THEN "centroid"
                         ELSE IF "distance_transform" \in Greatest THEN "distance_transform"
                         ELSE "weighted")

\* the centroid and the distance transform tie, above the weighted point
C4_Witness ==
    /\ Returned("compare_algorithms")
    /\ ~TooShort
    /\ Greatest = {"centroid", "distance_transform"}
    /\ result.winner = "centroid"

\* every turn of the ring is to the same side
IsConvex(poly) ==
    LET n == Len(poly.pts)
        turn(i) == (Vertex(poly, i + 1)[1] - Vertex(poly, i)[1])
                     * (Vertex(poly, i + 2)[2] - Vertex(poly, i + 1)[2])
                   - (Vertex(poly, i + 1)[2] - Vertex(poly, i)[2])
                     * (Vertex(poly, i + 2)[1] - Vertex(poly, i + 1)[1])
    IN  \/ \A i \in 1 .. n : turn(i) > 0
        \/ \A i \in 1 .. n : turn(i) < 0

\* |a - b| <= 1 for rationals
WithinOne(a, b) ==
    /\ a.n * b.d - b.n * a.d <= a.d * b.d
    /\ b.n * a.d - a.n * b.d <= a.d * b.d

\* C5 as stated: for a convex polygon the max-distance point is within one
\* grid unit, on each axis, of the centroid.
C5_ConvexAtCentroid ==
    (Returned("place_label") /\ ~TooShort /\ IsConvex(Coordinates)) =>
        /\ WithinOne(result.placement.optimal_x, result.placement.naive_x)
        /\ WithinOne(result.placement.optimal_y, result.placement.naive_y)

TheSquare == Coord(1, << <<0, 0>>, <<0, 10>>, <<10, 10>>, <<10, 0>> >>)

\* C5, amended: for the square (0,0),(0,10),(10,10),(10,0) the max-distance
\* point is (5,5), the centroid, with distance 5.
C5_Square ==
    (Returned("place_label") /\ Coordinates = TheSquare) =>
        /\ result.placement.optimal_x = Rat(5, 1)
        /\ result.placement.optimal_y = Rat(5, 1)
        /\ result.placement.naive_x = Rat(5, 1)
        /\ result.placement.naive_y = Rat(5, 1)
        /\ result.placement.max_width_sq = 4 * 5 * 5

C5_Witness ==
    /\ Returned("place_label")
    /\ Coordinates = TheSquare
    /\ result.kind = "ok"
    /\ Cardinality(MaxCellsOf[call.input]) > 1

\* the point (x, y) is off the ring and the ring does not go around it
Outside(poly, x, y) ==
    LET q == Lcm(Lcm(x.d, y.d), poly.den)
        t == <<x.n * (q \div x.d), y.n * (q \div y.d)>>
        V(i) == <<Vertex(poly, i)[1] * (q \div poly.den),
                  Vertex(poly, i)[2] * (q \div poly.den)>>
    IN  /\ BoundaryDistance(poly, [x |-> x, y |-> y]).n # <<>>
        /\ Cardinality({i \in 1 .. Len(poly.pts) : EdgeCrossed(V(i), V(i + 1), t)}) % 2 = 0

\* C6: for a bent polygon whose centroid is outside it, compare_algorithms
\* reports a distance to the boundary for the centroid that is less than
\* the one of the max-distance candidate, and the max-distance point is a
\* cell inside the polygon.
C6_BentCentroidLoses ==
    (/\ Returned("compare_algorithms")
     /\ ~TooShort
     /\ Outside(Coordinates, result.candidates.centroid.x, result.candidates.centroid.y))
        => /\ SqLess(Clearance("centroid"), Clearance("distance_transform"))
           /\ \E cell \in RasterOf[call.input] :
                /\ result.candidates.distance_transform.x = CellX(cell)
                /\ result.candidates.distance_transform.y = CellY(cell)

PositiveOf ==
    [i \in PolygonIds |-> {c \in DOMAIN DistancesOf[i] : DistancesOf[i][c] > 0}]

\* the cells strictly above the 50th percentile of the positive distances:
\* with the positive distances sorted as s[0] <= ... <= s[n-1], the
\* percentile is s[(n-1)/2] for odd n and the mean of s[n/2-1] and s[n/2]
\* for even n, and a distance of the field exceeds that mean exactly when
\* it exceeds s[n/2-1]
LowerMedian(d, cells) ==
    CHOOSE v \in {d[c] : c \in cells} :
        /\ 2 * Cardinality({c \in cells : d[c] < v}) < Cardinality(cells)
        /\ 2 * Cardinality({c \in cells : d[c] <= v}) >= Cardinality(cells)

AbovePercentileOf ==
    [i \in PolygonIds |->
        IF PositiveOf[i] = {} THEN {}
        ELSE {c \in PositiveOf[i] :
                DistancesOf[i][c] > LowerMedian(DistancesOf[i], PositiveOf[i])}]

RECURSIVE SumOver(_, _)
SumOver(S, axis) ==
    IF S = {} THEN 0
    ELSE LET c == CHOOSE c \in S : TRUE IN c[axis] + SumOver(S \ {c}, axis)

\* C7: the weighted candidate's (x, y) is the centroid's when no cell of the
\* distance field is positive or none exceeds the 50th percentile of the
\* positive values, and otherwise the mean (col, row) of the cells that
\* exceed it, shifted by (minx, miny); nothing raises in either case.
AboveSumsOf ==
    [i \in PolygonIds |->
        [n |-> Cardinality(AbovePercentileOf[i]),
         cols |-> SumOver(AbovePercentileOf[i], 2),
         rows |-> SumOver(AbovePercentileOf[i], 1)]]

C7_WeightedPoint ==
    (Returned("compare_algorithms") /\ ~TooShort) =>
        LET n == AboveSumsOf[call.input].n
            b == PolygonBounds(Coordinates)
            w == result.candidates.weighted
        IN  /\ result.kind = "ok"
            /\ n = 0 => /\ w.x = result.candidates.centroid.x
                        /\ w.y = result.candidates.centroid.y
                        /\ w.x = PolygonCentroid(Coordinates).x
                        /\ w.y = PolygonCentroid(Coordinates).y
            /\ n > 0 => /\ w.x = Rat(AboveSumsOf[call.input].cols * Coordinates.den + n * b.minx,
                                     n * Coordinates.den)
                        /\ w.y = Rat(AboveSumsOf[call.input].rows * Coordinates.den + n * b.miny,
                                     n * Coordinates.den)

\* the positive distances are all equal: nothing exceeds the percentile
C7_Witness ==
    /\ Returned("compare_algorithms")
    /\ ~TooShort
    /\ PositiveOf[call.input] # {}
    /\ AbovePercentileOf[call.input] = {}
    /\ result.candidates.weighted.x = result.candidates.centroid.x

\* C8: for a polygon of at least 3 points whose raster has no True cell,
\* place_label returns a normal result with max_width = 0 and, for a font
\* size of at least 1, fits_inside = false.
C8_NoInterior ==
    (Returned("place_label") /\ ~TooShort /\ RasterOf[call.input] = {}) =>
        /\ result.kind = "ok"
        /\ result.placement.max_width_sq = 0
        /\ call.font_size >= 1 => ~result.placement.fits_inside

C8_Witness ==
    /\ Returned("place_label")
    /\ ~TooShort
    /\ RasterOf[call.input] = {}
    /\ call.font_size >= 1
    /\ result.kind = "ok"

\* row-major order of the cells <<row, col>>
Earlier(a, b) == a[1] < b[1] \/ (a[1] = b[1] /\ a[2] < b[2])

\* C9: the max-distance strategy returns the world point (col + minx,
\* row + miny) of the first cell in row-major order whose distance is the
\* greatest of the field; no earlier cell holds that value.
FirstMaxCellsOf ==
    [i \in PolygonIds |->
        {cell \in MaxCellsOf[i] : \A other \in MaxCellsOf[i] : ~Earlier(other, cell)}]

C9_FirstMaximum ==
    (Returned("place_label") /\ ~TooShort) =>
        \E cell \in FirstMaxCellsOf[call.input] :
            /\ result.placement.optimal_x = CellX(cell)
            /\ result.placement.optimal_y = CellY(cell)
            /\ result.placement.max_width_sq = 4 * DistancesOf[call.input][cell]

\* several cells hold the maximum, on more than one row and column
C9_Witness ==
    /\ Returned("place_label")
    /\ ~TooShort
    /\ result.kind = "ok"
    /\ \E a, b \in MaxCellsOf[call.input] : a[1] < b[1] /\ a[2] > b[2]

\* the least integer that is at least n / d, for n >= 0 and d > 0
Ceil(n, d) == CHOOSE k \in 0 .. n : k * d >= n /\ (k - 1) * d < n

Floor(n, d) == CHOOSE k \in 0 .. n : k * d <= n /\ (k + 1) * d > n

ExtentX == PolygonBounds(Coordinates).maxx - PolygonBounds(Coordinates).minx

ExtentY == PolygonBounds(Coordinates).maxy - PolygonBounds(Coordinates).miny

\* C10 as stated: every grid built has width = ceil(maxx - minx) + 20 and
\* height = ceil(maxy - miny) + 20.
C10_GridCeil ==
    ((Returned("place_label") \/ Returned("compare_algorithms")) /\ ~TooShort) =>
        \A k \in DOMAIN rasters :
            /\ rasters[k].width = Ceil(ExtentX, Coordinates.den) + 20
            /\ rasters[k].height = Ceil(ExtentY, Coordinates.den) + 20

\* C10, amended: every grid built has width = floor(maxx - minx) + 20 and
\* height = floor(maxy - miny) + 20: one less than stated on an axis whose
\* extent is not whole.  _find_widest_point builds one grid and
\* compare_algorithms a second of the same shape.
C10_GridFloor ==
    ((Returned("place_label") \/ Returned("compare_algorithms")) /\ ~TooShort) =>
        /\ Len(rasters) = (IF call.op = "place_label" THEN 1 ELSE 2)
        /\ \A k \in DOMAIN rasters :
            /\ rasters[k].width = Floor(ExtentX, Coordinates.den) + 20
            /\ rasters[k].height = Floor(ExtentY, Coordinates.den) + 20

\* an extent that is whole and one that is not
C10_Witness ==
    /\ Returned("compare_algorithms")
    /\ ~TooShort
    /\ Len(rasters) = 2
    /\ ExtentX % Coordinates.den = 0
    /\ ExtentY % Coordinates.den # 0
    /\ rasters[2].height = Ceil(ExtentY, Coordinates.den) + 19

====
